---- MODULE Spec2Model ----
(***************************************************************************)
(* A model of spdx_validator/validator.py: class SPDXValidator, its        *)
(* recursive validate_file walk over DYNAMIC_LINK relationships, the       *)
(* manifest resolver _find_manifest_file and the related-element check.    *)
(*                                                                         *)
(* Strings are sequences of tokens, so that split, replace, concatenation  *)
(* and os.path.join are computed as the code computes them.  A file system *)
(* is a function from the existing paths to file contents.                 *)
(***************************************************************************)
EXTENDS Integers, Sequences, FiniteSets, TLC

\* ------------------------------------------------------------------------
\* Bounds of the model
\* ------------------------------------------------------------------------

\* The interpreter's recursion limit, in nested validate_file frames: a call
\* that would nest deeper ends in RecursionError.
MaxDepth == 4

\* ------------------------------------------------------------------------
\* Python values
\* ------------------------------------------------------------------------

\* None and a present value, as sequences of length 0 and 1
None == <<>>

Some(x) == <<x>>

\* ------------------------------------------------------------------------
\* Strings: sequences of tokens
\* ------------------------------------------------------------------------

\* The literal "DocumentRef-" (validator.py:97 and :136), one token
DocRefMarker == "DocumentRef-"

\* str.replace("DocumentRef-", ""): every occurrence is removed
StripDocRef(s) == SelectSeq(s, LAMBDA t : t # DocRefMarker)

\* str.split(sep): the list of the segments between the separators
RECURSIVE Split(_, _)
Split(s, sep) ==
    IF \A i \in 1..Len(s) : s[i] # sep
    THEN << s >>
    ELSE LET k == CHOOSE i \in 1..Len(s) :
                      /\ s[i] = sep
                      /\ \A j \in 1..(i - 1) : s[j] # sep
         IN  << SubSeq(s, 1, k - 1) >> \o Split(SubSeq(s, k + 1, Len(s)), sep)

\* os.path.join(a, b) for a relative b
Join(a, b) ==
    IF a = <<>> THEN b
    ELSE IF a[Len(a)] = "/" THEN a \o b
    ELSE a \o << "/" >> \o b

\* The file suffixes _find_manifest_file appends (validator.py:188-193)
SuffixJson == << ".json" >>

SuffixDashSpdxJson == << "-", "spdx", ".json" >>

SuffixDotSpdxJson == << ".spdx", ".json" >>

\* The tokens that are a file extension (a dot and what follows it)
ExtTokens == { ".json", ".JSON", ".yaml", ".yml", ".YML", ".txt", ".spdx" }

\* os.path.splitext(spdx_file)[1]: the last extension of the path, or ""
Splitext(path) ==
    IF path # <<>> /\ path[Len(path)] \in ExtTokens THEN path[Len(path)] ELSE ""

\* str.lower() on a suffix
Lower(t) ==
    CASE t = ".JSON" -> ".json"
      [] t = ".YML"  -> ".yml"
      [] OTHER       -> t

\* ------------------------------------------------------------------------
\* The environment and the validator object
\* ------------------------------------------------------------------------

VARIABLES
    fs,                \* the file system: existing path -> [kind, bytes, doc]
    debug,             \* self.debug
    spdx_dirs,         \* self.spdx_dirs
    checked_elements,  \* self.checked_elements (a list)
    manifest_data,     \* self.manifest_data (None or the retained manifest)
    stack,             \* the nested validate_file frames, innermost last
    status,            \* "idle" | "running" | "exited" (the process is gone)
    call,              \* the arguments of the current or last top-level call
    result,            \* how the last top-level call ended
    spy,               \* what the current top-level call has done so far:
                       \* counts of loads, relationships examined, files
                       \* resolved and digests computed, checked_elements
                       \* at the call, the files read and the
                       \* (file, relationship) pairs taken up
    validated          \* files a recursive top-level call has returned for

vars == << fs, debug, spdx_dirs, checked_elements, manifest_data, stack,
           status, call, result, spy, validated >>

\* ------------------------------------------------------------------------
\* Collaborators outside validator.py
\* ------------------------------------------------------------------------

\* The algorithm names the checksum provider knows
SupportedAlgorithms == { "SHA1", "SHA256" }

\* spdx_validator.checksum.hash_from_file(f, algorithm): the digest of the
\* file's bytes under the algorithm; distinct bytes or algorithms give
\* distinct digests.
hash_from_file(f, algorithm) ==
    IF algorithm \in SupportedAlgorithms
    THEN [kind |-> "ok", digest |-> << algorithm, fs[f].bytes >>]
    ELSE [kind |-> "UnsupportedAlgorithm", digest |-> <<>>]

\* json.load / yaml.safe_load on an open file: the document, when the
\* content is of the format (every JSON text is YAML too)
ParseOk(content, suff) ==
    IF suff = ".json" THEN content.kind = "json"
    ELSE content.kind \in { "json", "yaml" }

\* jsonschema.validate(instance, schema) against the SPDX 2.2 schema, which
\* asks for an object: None is a violation.
SchemaOk(manifest) ==
    manifest # None /\ manifest[1].schemaOK

\* ------------------------------------------------------------------------
\* validate_file, lines 56-76: read the file
\* ------------------------------------------------------------------------

\* The body of the try block: the manifest read, or the exception raised in
\* it (open fails, the parser fails, or line 70 raises for the suffix)
TryLoad(spdx_file) ==
    LET suff == Lower(Splitext(spdx_file))
    IN  IF spdx_file \notin DOMAIN fs
        THEN [raised |-> "OSError", manifest |-> None]
        ELSE IF suff \notin { ".yaml", ".yml", ".json" }
        THEN [raised |-> "UnsupportedFormat", manifest |-> None]
        ELSE IF ~ParseOk(fs[spdx_file], suff)
        THEN [raised |-> "ParseError", manifest |-> None]
        ELSE [raised |-> "", manifest |-> Some(fs[spdx_file].doc)]

\* The except clause (lines 73-76): the raise is under "if self.debug", so
\* without debug the exception is dropped and manifest_data stays None.
LoadManifest(spdx_file) ==
    LET t == TryLoad(spdx_file)
    IN  IF t.raised # "" /\ debug
        THEN [kind |-> "FileAccessError", manifest |-> None]
        ELSE [kind |-> "ok", manifest |-> t.manifest]

\* validate_json (lines 222-232)
validate_json(manifest) ==
    IF SchemaOk(manifest) THEN "ok" ELSE "SchemaViolation"

\* ------------------------------------------------------------------------
\* _find_manifest_file (lines 177-210)
\* ------------------------------------------------------------------------

\* lines 187-193: the six candidate paths of one directory
try_files(dir, pkg_ver, pkg) ==
    << Join(dir, pkg_ver) \o SuffixJson,
       Join(dir, pkg_ver) \o SuffixDashSpdxJson,
       Join(dir, pkg_ver) \o SuffixDotSpdxJson,
       Join(Join(dir, pkg), pkg_ver \o SuffixJson),
       Join(Join(dir, pkg), pkg_ver \o SuffixDashSpdxJson),
       Join(Join(dir, pkg), pkg_ver \o SuffixDotSpdxJson) >>

\* os.path.isfile
isfile(f) == f \in DOMAIN fs

\* FoundFiles with the search ended at the first directory that holds a
\* candidate
RECURSIVE FoundFilesFirstDir(_, _, _)
FoundFilesFirstDir(dirs, pkg_ver, pkg) ==
    IF dirs = <<>> THEN <<>>
    ELSE IF SelectSeq(try_files(Head(dirs), pkg_ver, pkg), isfile) # <<>>
    THEN SelectSeq(try_files(Head(dirs), pkg_ver, pkg), isfile)
    ELSE FoundFilesFirstDir(Tail(dirs), pkg_ver, pkg)

\* lines 181-198: the candidates that are files, directory by directory
RECURSIVE FoundFiles(_, _, _)
FoundFiles(dirs, pkg_ver, pkg) ==
    IF dirs = <<>> THEN <<>>
    ELSE SelectSeq(try_files(Head(dirs), pkg_ver, pkg), isfile)
             \o FoundFiles(Tail(dirs), pkg_ver, pkg)

_find_manifest_file(elem_id) ==
    LET pkg_ver == Split(elem_id, ":")[1]
        parts   == Split(pkg_ver, "-")
    IN  IF spdx_dirs # <<>> /\ Len(parts) < 2
        THEN [kind |-> "IndexError", f |-> <<>>, files_cnt |-> 0]
        ELSE LET files == FoundFiles(spdx_dirs, pkg_ver, parts[1])
             IN  IF Len(files) = 0
                 THEN [kind |-> "ManifestNotFound", f |-> <<>>, files_cnt |-> 0]
                 ELSE IF Len(files) > 1
                 THEN [kind |-> "AmbiguousManifest", f |-> <<>>,
                       files_cnt |-> Len(files)]
                 ELSE [kind |-> "ok", f |-> files[1], files_cnt |-> 1]

\* ------------------------------------------------------------------------
\* _validate_related_elem (lines 212-219)
\* ------------------------------------------------------------------------

\* _validate_related_elem content with a manifest that has packages at all
_validate_related_elem_AnyPackage(item, manifest) ==
    IF manifest.packages # <<>>
    THEN "ok"
    ELSE "DanglingRelatedElement"

_validate_related_elem(item, manifest) ==
    IF \E i \in 1..Len(manifest.packages) : manifest.packages[i].SPDXID = item
    THEN "ok"
    ELSE "DanglingRelatedElement"

\* ------------------------------------------------------------------------
\* validate_file, lines 124-149: the checksum stage
\* ------------------------------------------------------------------------

\* line 136
doc_ref_id(doc_ref) ==
    StripDocRef(Split(doc_ref.externalDocumentId, ":")[1])

\* DocRefLoop with the loop left at the first matching entry
RECURSIVE DocRefLoopFirstMatch(_, _, _, _, _, _)
DocRefLoopFirstMatch(refs, i, ext_doc_ref, f, found, hashes) ==
    IF i > Len(refs)
    THEN [kind |-> IF found THEN "ok" ELSE "MissingExternalDocRef",
          hashes |-> hashes]
    ELSE IF ext_doc_ref # doc_ref_id(refs[i])
    THEN DocRefLoopFirstMatch(refs, i + 1, ext_doc_ref, f, found, hashes)
    ELSE LET h == hash_from_file(f, refs[i].checksum.algorithm)
         IN  IF h.kind # "ok"
             THEN [kind |-> h.kind, hashes |-> hashes + 1]
             ELSE IF h.digest # refs[i].checksum.checksumValue
             THEN [kind |-> "ChecksumMismatch", hashes |-> hashes + 1]
             ELSE [kind |-> "ok", hashes |-> hashes + 1]

\* DocRefLoop that looks for a matching entry and compares no digest
RECURSIVE DocRefLoopNoCompare(_, _, _, _, _, _)
DocRefLoopNoCompare(refs, i, ext_doc_ref, f, found, hashes) ==
    IF i > Len(refs)
    THEN [kind |-> IF found THEN "ok" ELSE "MissingExternalDocRef",
          hashes |-> hashes]
    ELSE IF ext_doc_ref # doc_ref_id(refs[i])
    THEN DocRefLoopNoCompare(refs, i + 1, ext_doc_ref, f, found, hashes)
    ELSE DocRefLoopNoCompare(refs, i + 1, ext_doc_ref, f, TRUE, hashes)

\* lines 135-148: the loop over externalDocumentRefs from entry i on, with
\* ext_doc_ref_found and the number of digests computed so far
RECURSIVE DocRefLoop(_, _, _, _, _, _)
DocRefLoop(refs, i, ext_doc_ref, f, found, hashes) ==
    IF i > Len(refs)
    THEN [kind |-> IF found THEN "ok" ELSE "MissingExternalDocRef",
          hashes |-> hashes]
    ELSE IF ext_doc_ref # doc_ref_id(refs[i])
    THEN DocRefLoop(refs, i + 1, ext_doc_ref, f, found, hashes)
    ELSE LET h == hash_from_file(f, refs[i].checksum.algorithm)
         IN  IF h.kind # "ok"
             THEN [kind |-> h.kind, hashes |-> hashes + 1]
             ELSE IF h.digest # refs[i].checksum.checksumValue
             THEN [kind |-> "ChecksumMismatch", hashes |-> hashes + 1]
             ELSE DocRefLoop(refs, i + 1, ext_doc_ref, f, TRUE, hashes + 1)

\* check_checksum with a manifest without externalDocumentRefs let through
check_checksum_MissingRefsOk(elem_id, f, manifest) ==
    LET ext_doc_ref == Split(elem_id, ":")[1]
    IN  IF manifest.externalDocumentRefs = None
        THEN [kind |-> "ok", hashes |-> 0]
        ELSE DocRefLoop(manifest.externalDocumentRefs[1], 1, ext_doc_ref, f,
                        FALSE, 0)

\* lines 125-148; line 133 is exit(1): SystemExit, the process ends
check_checksum(elem_id, f, manifest) ==
    LET ext_doc_ref == Split(elem_id, ":")[1]
    IN  IF manifest.externalDocumentRefs = None
        THEN [kind |-> "SystemExit", hashes |-> 0]
        ELSE DocRefLoop(manifest.externalDocumentRefs[1], 1, ext_doc_ref, f,
                        FALSE, 0)

\* ------------------------------------------------------------------------
\* validate_file, lines 163-170: the back-reference check
\* ------------------------------------------------------------------------

\* check_back_reference comparing the document name only, not the package
check_back_reference_NameOnly(inner_manifest, elem_id) ==
    IF inner_manifest.name = Split(elem_id, ":")[1]
    THEN "ok"
    ELSE "UnresolvedBackReference"

check_back_reference(inner_manifest, elem_id) ==
    IF \E i \in 1..Len(inner_manifest.packages) :
           inner_manifest.name \o << ":" >> \o inner_manifest.packages[i].SPDXID
               = elem_id
    THEN "ok"
    ELSE "UnresolvedBackReference"

\* ------------------------------------------------------------------------
\* SPDX documents
\* ------------------------------------------------------------------------

Package(id) == [SPDXID |-> id]

Relationship(type, elem, related) ==
    [relationshipType |-> type, spdxElementId |-> elem,
     relatedSpdxElement |-> related]

DocRef(id, algorithm, value) ==
    [externalDocumentId |-> id,
     checksum |-> [algorithm |-> algorithm, checksumValue |-> value]]

\* A parsed manifest; relationships and externalDocumentRefs are optional
\* fields (None when the key is absent)
Doc(name, packages, relationships, refs) ==
    [schemaOK |-> TRUE, name |-> name, packages |-> packages,
     relationships |-> relationships, externalDocumentRefs |-> refs]

\* A file: the format its text is in, its bytes, the document it holds
File(kind, bytes, doc) == [kind |-> kind, bytes |-> bytes, doc |-> doc]

\* ------------------------------------------------------------------------
\* The environments the model is run in
\* ------------------------------------------------------------------------

PkgVerR == << "r", "-", "1" >>

PkgVerA == << "a", "-", "1" >>

PkgVerB == << "b", "-", "1" >>

Libfoo == << "libfoo" >>

IdP == << "P" >>

IdQ == << "Q" >>

Cwd == << "." >>

OtherDir == << "d" >>

\* dir/pkg_ver<suffix> and dir/sub/pkg_ver<suffix>, written out
PathIn(dir, pkg_ver, suffix) == dir \o << "/" >> \o pkg_ver \o suffix

PathUnder(dir, sub, pkg_ver, suffix) ==
    dir \o << "/" >> \o sub \o << "/" >> \o pkg_ver \o suffix

MissingPath == << ".", "/", "missing", ".json" >>

\* A DYNAMIC_LINK relationship to package P of the manifest pkg_ver names,
\* and the external document reference pinning that manifest's bytes
LinkRel(pkg_ver) ==
    Relationship("DYNAMIC_LINK",
                 << DocRefMarker >> \o pkg_ver \o << ":" >> \o IdP, IdP)

LinkRef(pkg_ver, bytes) ==
    DocRef(<< DocRefMarker >> \o pkg_ver, "SHA1", << "SHA1", bytes >>)

OtherRel(pkg_ver) ==
    Relationship("CONTAINS",
                 << DocRefMarker >> \o pkg_ver \o << ":" >> \o IdP, IdP)

\* A manifest without relationships, and one linking to another manifest
LeafDoc(name) == Doc(name, << Package(IdP) >>, None, None)

LinkDoc(name, to, bytes) ==
    Doc(name, << Package(IdP) >>, Some(<< LinkRel(to) >>),
        Some(<< LinkRef(to, bytes) >>))

\* The relationships fields a manifest linking to pkg_ver is tried with
RelationshipsOf(to) ==
    { None,
      Some(<<>>),
      Some(<< LinkRel(to) >>),
      Some(<< OtherRel(to) >>),
      Some(<< OtherRel(to), LinkRel(to) >>),
      Some(<< LinkRel(to), LinkRel(to) >>),
      Some(<< Relationship("DYNAMIC_LINK", to \o << ":" >> \o IdP, IdP) >>),
      Some(<< Relationship("DYNAMIC_LINK", << DocRefMarker >> \o to, IdP) >>),
      Some(<< Relationship("DYNAMIC_LINK",
                           << DocRefMarker >> \o to \o << ":" >> \o IdQ, IdP) >>),
      Some(<< Relationship("DYNAMIC_LINK",
                           << DocRefMarker >> \o to \o << ":" >> \o IdP, IdQ) >>),
      Some(<< LinkRel(to),
              Relationship("DYNAMIC_LINK",
                           << DocRefMarker >> \o to \o << ":" >> \o IdP, IdQ) >>) }

\* The externalDocumentRefs fields it is tried with
RefsOf(to, bytes) ==
    { None,
      Some(<<>>),
      Some(<< LinkRef(to, bytes) >>),
      Some(<< LinkRef(PkgVerR, bytes) >>),
      Some(<< LinkRef(to, "tampered") >>),
      Some(<< LinkRef(to, bytes), LinkRef(to, "tampered") >>),
      Some(<< LinkRef(PkgVerR, "tampered"), LinkRef(to, bytes) >>),
      Some(<< DocRef(to, "SHA1", << "SHA1", bytes >>) >>),
      Some(<< DocRef(<< DocRefMarker >> \o to \o << ":", "x" >>, "SHA256",
                     << "SHA256", bytes >>) >>),
      Some(<< DocRef(<< DocRefMarker >> \o to, "SHA1", << "SHA256", bytes >>) >>),
      Some(<< DocRef(<< DocRefMarker >> \o to, "CRC", << "CRC", bytes >>) >>) }

\* The manifests named `name` that link to `to`: the sound one with one
\* field changed
DocsLinking(name, to, bytes) ==
    LET d == LinkDoc(name, to, bytes)
    IN  { [d EXCEPT !.relationships = r] : r \in RelationshipsOf(to) }
        \cup { [d EXCEPT !.externalDocumentRefs = e] : e \in RefsOf(to, bytes) }
        \cup { [d EXCEPT !.packages = p] :
                   p \in { <<>>, << Package(IdQ) >>,
                           << Package(IdQ), Package(IdP) >> } }
        \cup { [d EXCEPT !.name = << "x" >>], [d EXCEPT !.schemaOK = FALSE] }

\* Where the manifest of pkg_ver may lie: each is a set of paths
LocationsOf(pkg_ver, pkg) ==
    { {},
      { PathIn(Cwd, pkg_ver, SuffixJson) },
      { PathIn(Cwd, pkg_ver, SuffixDashSpdxJson) },
      { PathUnder(Cwd, pkg, pkg_ver, SuffixDotSpdxJson) },
      { PathIn(OtherDir, pkg_ver, SuffixJson) },
      { PathIn(Cwd, pkg_ver, SuffixJson), PathUnder(Cwd, pkg, pkg_ver, SuffixJson) },
      { PathIn(Cwd, pkg_ver, SuffixJson), PathIn(OtherDir, pkg_ver, SuffixJson) },
      { PathIn(OtherDir, pkg_ver, SuffixDotSpdxJson),
        PathUnder(OtherDir, pkg, pkg_ver, SuffixDashSpdxJson) } }

\* The search paths a validator is built with (never empty: lines 40-43)
SearchPaths == { << Cwd >>, << Cwd, OtherDir >>, << OtherDir, Cwd >> }

\* The root manifest's file: its name's suffix and the format of its text
RootFiles ==
    { [suffix |-> ".json", kind |-> "json"],
      [suffix |-> ".JSON", kind |-> "json"],
      [suffix |-> ".yaml", kind |-> "yaml"],
      [suffix |-> ".YML",  kind |-> "json"],
      [suffix |-> ".json", kind |-> "yaml"],
      [suffix |-> ".yml",  kind |-> "garbage"],
      [suffix |-> ".txt",  kind |-> "json"],
      [suffix |-> ".spdx", kind |-> "yaml"] }

RootPath(suffix) == PathIn(Cwd, PkgVerR, << suffix >>)

\* An environment: the root manifest r in its file, the file a_file at the
\* paths a_at and the file b_file at the paths b_at
Env(dbg, dirs, root, r, a_at, a_file, b_at, b_file) ==
    [debug |-> dbg, spdx_dirs |-> dirs,
     fs |-> [p \in { RootPath(root.suffix) } \cup a_at \cup b_at |->
                IF p = RootPath(root.suffix) THEN File(root.kind, "bytesR", r)
                ELSE IF p \in a_at THEN a_file
                ELSE b_file]]

ADirect == { PathIn(Cwd, PkgVerA, SuffixJson) }

BDirect == { PathIn(Cwd, PkgVerB, SuffixJson) }

RootJson == [suffix |-> ".json", kind |-> "json"]

SoundR == LinkDoc(PkgVerR, PkgVerA, "bytesA")

SoundA == LinkDoc(PkgVerA, PkgVerB, "bytesB")

\* The manifests b-1 is tried with: a leaf, and ones linking back to a-1
DocsB ==
    { LeafDoc(PkgVerB), LeafDoc(<< "x" >>),
      LinkDoc(PkgVerB, PkgVerA, "bytesA"),
      LinkDoc(PkgVerB, PkgVerA, "tampered") }

\* The files a-1 is tried with
FilesA ==
    { File("json", "bytesA", a) : a \in DocsLinking(PkgVerA, PkgVerB, "bytesB") }
    \cup { File("json", "bytesA", LeafDoc(PkgVerA)),
           File("json", "tampered", SoundA),
           File("garbage", "bytesA", SoundA) }

\* The root manifests: linking to a-1, to a-1 and b-1, or to libfoo
DocsR ==
    DocsLinking(PkgVerR, PkgVerA, "bytesA")
    \cup { Doc(PkgVerR, << Package(IdP) >>,
               Some(<< LinkRel(PkgVerB), LinkRel(PkgVerA) >>),
               Some(<< LinkRef(PkgVerB, "bytesB"), LinkRef(PkgVerA, "bytesA") >>)) }

Environments ==
    \* the root file and the debug flag
    { Env(dbg, << Cwd >>, root, SoundR, ADirect,
          File("json", "bytesA", SoundA), BDirect,
          File("json", "bytesB", LeafDoc(PkgVerB))) :
        dbg \in BOOLEAN, root \in RootFiles }
    \* where a-1 lies and the search path
    \cup { Env(FALSE, dirs, RootJson, SoundR, a_at,
               File("json", "bytesA", LeafDoc(PkgVerA)), {},
               File("json", "bytesB", LeafDoc(PkgVerB))) :
             dirs \in SearchPaths, a_at \in LocationsOf(PkgVerA, << "a" >>) }
    \* the root manifest and the manifest it links to
    \cup { Env(dbg, << Cwd >>, RootJson, r, ADirect, a_file, BDirect,
               File("json", "bytesB", LeafDoc(PkgVerB))) :
             dbg \in BOOLEAN, r \in DocsR,
             a_file \in { File("json", "bytesA", SoundA),
                          File("json", "bytesA",
                               [SoundA EXCEPT !.externalDocumentRefs =
                                   Some(<< LinkRef(PkgVerB, "tampered") >>)]) } }
    \* the linked manifest and the manifest it links to in turn
    \cup { Env(FALSE, << Cwd >>, RootJson, SoundR, ADirect, a_file,
               BDirect, File("json", "bytesB", b)) :
             a_file \in FilesA, b \in DocsB }
    \* a manifest whose name has no hyphen
    \cup { Env(FALSE, dirs, RootJson, LinkDoc(PkgVerR, Libfoo, "bytesL"),
               a_at, File("json", "bytesL", LeafDoc(Libfoo)), {},
               File("json", "bytesB", LeafDoc(PkgVerB))) :
             dirs \in SearchPaths,
             a_at \in { {}, { PathIn(Cwd, Libfoo, SuffixJson) } } }

\* ------------------------------------------------------------------------
\* The state machine
\* ------------------------------------------------------------------------

\* returns_early without the test of the recursive flag
returns_early_NoFlag(recursive, manifest) ==
    manifest.relationships = None

\* lines 87-91: validate_file returns right after the schema check
returns_early(recursive, manifest) ==
    ~recursive \/ manifest.relationships = None

\* is_dynamic_link testing that the type is there, not what it is
is_dynamic_link_AnyType(relationship) ==
    relationship.relationshipType # ""

\* line 96
is_dynamic_link(relationship) ==
    relationship.relationshipType = "DYNAMIC_LINK"

\* line 97
elem_id_of(relationship) == StripDocRef(relationship.spdxElementId)

\* already_checked looking at the last recorded element id only
already_checked_LastOnly(elem_id) ==
    /\ checked_elements # <<>>
    /\ checked_elements[Len(checked_elements)] = elem_id

\* line 100
already_checked(elem_id) ==
    \E i \in 1..Len(checked_elements) : checked_elements[i] = elem_id

\* A validate_file frame: its arguments, its locals and where it stands
Frame(spdx_file, recursive) ==
    [spdx_file |-> spdx_file, recursive |-> recursive, stage |-> "read",
     manifest_data |-> None, idx |-> 1, elem_id |-> <<>>,
     related_elem |-> <<>>, f |-> <<>>, inner_manifest |-> None]

NoSpy ==
    [loads |-> 0, examined |-> 0, finds |-> 0, hashes |-> 0,
     entry |-> <<>>, repeat |-> FALSE, visited |-> {}, processed |-> {}]

\* __init__ (lines 27-49) in an environment
Init ==
    \E e \in Environments :
        /\ fs = e.fs
        /\ debug = e.debug
        /\ spdx_dirs = e.spdx_dirs
        /\ checked_elements = <<>>
        /\ manifest_data = None
        /\ stack = <<>>
        /\ status = "idle"
        /\ call = [spdx_file |-> <<>>, recursive |-> FALSE]
        /\ result = [kind |-> "none", value |-> None]
        /\ spy = NoSpy
        /\ validated = {}

Top == stack[Len(stack)]

At(stage) == status = "running" /\ stack # <<>> /\ Top.stage = stage

\* The top frame replaced
SetTop(frame) == [stack EXCEPT ![Len(stack)] = frame]

\* An exception no frame catches: every frame is left, the call has failed
Raise(kind) ==
    /\ stack' = <<>>
    /\ status' = IF kind = "SystemExit" THEN "exited" ELSE "idle"
    /\ result' = [kind |-> kind, value |-> None]

\* The caller calls validate_file(spdx_file, recursive) on the validator
Call(spdx_file, recursive) ==
    /\ status = "idle"
    /\ status' = "running"
    /\ stack' = << Frame(spdx_file, recursive) >>
    /\ call' = [spdx_file |-> spdx_file, recursive |-> recursive]
    /\ result' = [kind |-> "pending", value |-> None]
    /\ spy' = [NoSpy EXCEPT !.entry = checked_elements,
                            !.repeat = spdx_file \in validated]
    /\ UNCHANGED << fs, debug, spdx_dirs, checked_elements, manifest_data,
                    validated >>

\* lines 56-76: read the file
ReadFile ==
    /\ At("read")
    /\ LET l == LoadManifest(Top.spdx_file)
       IN  /\ spy' = [spy EXCEPT !.loads = @ + 1,
                                  !.visited = @ \cup { Top.spdx_file }]
           /\ IF l.kind # "ok"
              THEN Raise(l.kind)
              ELSE /\ stack' = SetTop([Top EXCEPT !.stage = "schema",
                                                  !.manifest_data = l.manifest])
                   /\ UNCHANGED << status, result >>
    /\ UNCHANGED << fs, debug, spdx_dirs, checked_elements, manifest_data,
                    call, validated >>

\* lines 78-91: retain the first manifest, check it against the schema,
\* return at once when not recursive or without relationships
CheckSchema ==
    /\ At("schema")
    /\ manifest_data' =
           IF manifest_data = None THEN Top.manifest_data ELSE manifest_data
    /\ IF validate_json(Top.manifest_data) # "ok"
       THEN Raise(validate_json(Top.manifest_data))
       ELSE /\ stack' = SetTop([Top EXCEPT !.stage =
                   IF returns_early(Top.recursive, Top.manifest_data[1])
                   THEN "return" ELSE "loop"])
            /\ UNCHANGED << status, result >>
    /\ UNCHANGED << fs, debug, spdx_dirs, checked_elements, call, spy,
                    validated >>

\* lines 93-102: the next relationship; one that is not a DYNAMIC_LINK or
\* whose element id is already checked is passed over
NextRelationship ==
    /\ At("loop")
    /\ LET relationships == Top.manifest_data[1].relationships[1]
       IN  IF Top.idx > Len(relationships)
           THEN /\ stack' = SetTop([Top EXCEPT !.stage = "return"])
                /\ spy' = spy
           ELSE LET relationship == relationships[Top.idx]
                IN  /\ spy' = [spy EXCEPT
                            !.examined = @ + 1,
                            !.processed =
                                IF is_dynamic_link(relationship)
                                   /\ ~already_checked(elem_id_of(relationship))
                                THEN @ \cup { << Top.spdx_file, Top.idx >> }
                                ELSE @]
                    /\ IF ~is_dynamic_link(relationship)
                       THEN stack' = SetTop([Top EXCEPT !.idx = @ + 1])
                       ELSE IF already_checked(elem_id_of(relationship))
                       THEN stack' = SetTop([Top EXCEPT !.idx = @ + 1])
                       ELSE stack' = SetTop([Top EXCEPT
                                !.stage = "related",
                                !.elem_id = elem_id_of(relationship),
                                !.related_elem = relationship.relatedSpdxElement])
    /\ UNCHANGED << fs, debug, spdx_dirs, checked_elements, manifest_data,
                    status, call, result, validated >>

\* lines 105-111
ValidateRelatedElem ==
    /\ At("related")
    /\ IF _validate_related_elem(Top.related_elem, Top.manifest_data[1]) # "ok"
       THEN Raise(_validate_related_elem(Top.related_elem, Top.manifest_data[1]))
       ELSE /\ stack' = SetTop([Top EXCEPT !.stage = "find"])
            /\ UNCHANGED << status, result >>
    /\ UNCHANGED << fs, debug, spdx_dirs, checked_elements, manifest_data,
                    call, spy, validated >>

\* lines 116-118
FindManifestFile ==
    /\ At("find")
    /\ spy' = [spy EXCEPT !.finds = @ + 1]
    /\ LET r == _find_manifest_file(Top.elem_id)
       IN  IF r.kind # "ok"
           THEN Raise(r.kind)
           ELSE /\ stack' = SetTop([Top EXCEPT !.stage = "checksum", !.f = r.f])
                /\ UNCHANGED << status, result >>
    /\ UNCHANGED << fs, debug, spdx_dirs, checked_elements, manifest_data,
                    call, validated >>

\* lines 121-149
CheckChecksum ==
    /\ At("checksum")
    /\ LET r == check_checksum(Top.elem_id, Top.f, Top.manifest_data[1])
       IN  /\ spy' = [spy EXCEPT !.hashes = @ + r.hashes]
           /\ IF r.kind # "ok"
              THEN Raise(r.kind)
              ELSE /\ stack' = SetTop([Top EXCEPT !.stage = "recurse"])
                   /\ UNCHANGED << status, result >>
    /\ UNCHANGED << fs, debug, spdx_dirs, checked_elements, manifest_data,
                    call, validated >>

\* line 157: the nested call; beyond the recursion limit it cannot be made
Recurse ==
    /\ At("recurse")
    /\ IF Len(stack) >= MaxDepth
       THEN Raise("RecursionError")
       ELSE /\ stack' = Append(SetTop([Top EXCEPT !.stage = "await"]),
                               Frame(Top.f, Top.recursive))
            /\ UNCHANGED << status, result >>
    /\ UNCHANGED << fs, debug, spdx_dirs, checked_elements, manifest_data,
                    call, spy, validated >>

\* lines 88, 91 and 175: return manifest_data, to the frame that called or
\* to the caller of the validator
Return ==
    /\ At("return")
    /\ IF Len(stack) = 1
       THEN /\ stack' = <<>>
            /\ status' = "idle"
            /\ result' = [kind |-> "ok", value |-> Top.manifest_data]
            /\ validated' = IF Top.recursive
                            THEN validated \cup { Top.spdx_file }
                            ELSE validated
       ELSE /\ stack' = [SubSeq(stack, 1, Len(stack) - 1)
                             EXCEPT ![Len(stack) - 1] =
                                 [@ EXCEPT !.stage = "backref",
                                           !.inner_manifest = Top.manifest_data]]
            /\ UNCHANGED << status, result, validated >>
    /\ UNCHANGED << fs, debug, spdx_dirs, checked_elements, manifest_data,
                    call, spy >>

\* lines 160-172: the back-reference check, then the element id is recorded
CheckBackReference ==
    /\ At("backref")
    /\ IF check_back_reference(Top.inner_manifest[1], Top.elem_id) # "ok"
       THEN /\ Raise(check_back_reference(Top.inner_manifest[1], Top.elem_id))
            /\ UNCHANGED checked_elements
       ELSE /\ checked_elements' = Append(checked_elements, Top.elem_id)
            /\ stack' = SetTop([Top EXCEPT !.stage = "loop", !.idx = @ + 1,
                                           !.inner_manifest = None])
            /\ UNCHANGED << status, result >>
    /\ UNCHANGED << fs, debug, spdx_dirs, manifest_data, call, spy, validated >>

\* The files the caller may name: the files there are, and one there is not
Callable == DOMAIN fs \cup { MissingPath }

Next ==
    \/ \E spdx_file \in Callable, recursive \in BOOLEAN :
           Call(spdx_file, recursive)
    \/ ReadFile
    \/ CheckSchema
    \/ NextRelationship
    \/ ValidateRelatedElem
    \/ FindManifestFile
    \/ CheckChecksum
    \/ Recurse
    \/ Return
    \/ CheckBackReference

Spec == Init /\ [][Next]_vars

\* ------------------------------------------------------------------------
\* Vocabulary of the properties
\* ------------------------------------------------------------------------

\* The part of a string before its first colon
BeforeColon(s) == Split(s, ":")[1]

\* A top-level call has ended (returned or failed) and none is running
Finished == status = "idle" /\ result.kind # "none"

\* The file can be read, parsed by its suffix and passes the schema
Loadable(p) ==
    /\ p \in DOMAIN fs
    /\ TryLoad(p).raised = ""
    /\ fs[p].doc.schemaOK

\* The six candidate paths the resolver's contract names for one directory:
\* d/pkgVer.json, d/pkgVer-spdx.json, d/pkgVer.spdx.json and the same three
\* under d/pkg, pkg being pkgVer up to its first hyphen
Candidates(dir, pkg_ver) ==
    LET pkg == Split(pkg_ver, "-")[1]
    IN  << PathIn(dir, pkg_ver, SuffixJson),
           PathIn(dir, pkg_ver, SuffixDashSpdxJson),
           PathIn(dir, pkg_ver, SuffixDotSpdxJson),
           PathUnder(dir, pkg, pkg_ver, SuffixJson),
           PathUnder(dir, pkg, pkg_ver, SuffixDashSpdxJson),
           PathUnder(dir, pkg, pkg_ver, SuffixDotSpdxJson) >>

\* The candidates that exist, over all search directories: (directory,
\* candidate) positions
Existing(pkg_ver) ==
    { dk \in (1..Len(spdx_dirs)) \X (1..Len(Candidates(Cwd, pkg_ver))) :
          Candidates(spdx_dirs[dk[1]], pkg_ver)[dk[2]] \in DOMAIN fs }

\* The externalDocumentRefs entries of a manifest that match an element id
Matching(manifest, elem_id) ==
    IF manifest.externalDocumentRefs = None THEN {}
    ELSE { i \in 1..Len(manifest.externalDocumentRefs[1]) :
             StripDocRef(BeforeColon(
                 manifest.externalDocumentRefs[1][i].externalDocumentId))
                 = BeforeColon(elem_id) }

\* The declared checksum of entry i is the digest of file f
Declares(manifest, i, f) ==
    LET c == manifest.externalDocumentRefs[1][i].checksum
    IN  /\ c.algorithm \in SupportedAlgorithms
        /\ hash_from_file(f, c.algorithm).digest = c.checksumValue

\* Every relationship of the manifest in file a is a DYNAMIC_LINK that
\* passes every stage and resolves to file b
LinksOnlyTo(a, b) ==
    /\ Loadable(a)
    /\ Loadable(b)
    /\ fs[a].doc.relationships # None
    /\ fs[a].doc.relationships[1] # <<>>
    /\ \A k \in 1..Len(fs[a].doc.relationships[1]) :
           LET rel == fs[a].doc.relationships[1][k]
               e   == elem_id_of(rel)
           IN  /\ is_dynamic_link(rel)
               /\ _validate_related_elem(rel.relatedSpdxElement, fs[a].doc) = "ok"
               /\ _find_manifest_file(e).kind = "ok"
               /\ _find_manifest_file(e).f = b
               /\ check_checksum(e, b, fs[a].doc).kind = "ok"
               /\ check_back_reference(fs[b].doc, e) = "ok"

\* ------------------------------------------------------------------------
\* C1  Cycle safety: when two manifests each link to the other and every
\* other stage passes, a recursive validate_file call on one of them
\* terminates by returning: the call ends with a manifest, not a failure.
\* ------------------------------------------------------------------------
C1_CycleReturns ==
    \A a \in DOMAIN fs, b \in DOMAIN fs :
        ( /\ a # b
          /\ LinksOnlyTo(a, b)
          /\ LinksOnlyTo(b, a)
          /\ Finished
          /\ call = [spdx_file |-> a, recursive |-> TRUE] )
        => result.kind = "ok"

\* ------------------------------------------------------------------------
\* C2  Checksum law: at the checksum stage of a relationship whose manifest
\* has entries matching the element id, validation goes on to the recursive
\* call exactly when every matching entry declares the digest of the
\* resolved file; otherwise the call fails with ChecksumMismatch and the
\* resolved file is not loaded.
\* ------------------------------------------------------------------------
C2_ChecksumLaw ==
    [][ ( /\ At("checksum")
          /\ Matching(Top.manifest_data[1], Top.elem_id) # {}
          /\ \A i \in Matching(Top.manifest_data[1], Top.elem_id) :
                 Top.manifest_data[1].externalDocumentRefs[1][i]
                     .checksum.algorithm \in SupportedAlgorithms )
        => IF \A i \in Matching(Top.manifest_data[1], Top.elem_id) :
                  Declares(Top.manifest_data[1], i, Top.f)
           THEN /\ status' = "running"
                /\ Len(stack') = Len(stack)
                /\ stack'[Len(stack')].stage = "recurse"
                /\ spy'.loads = spy.loads
           ELSE /\ status' = "idle"
                /\ result'.kind = "ChecksumMismatch"
                /\ stack' = <<>>
                /\ spy'.loads = spy.loads ]_vars

\* A call failed on the second of two matching entries, the first correct
C2_Witness ==
    /\ Finished
    /\ result.kind = "ChecksumMismatch"
    /\ spy.hashes = 2

\* ------------------------------------------------------------------------
\* C3  A DYNAMIC_LINK relationship reached in a manifest that has no
\* externalDocumentRefs field fails the call with MissingExternalDocRef, a
\* validation error the caller receives; the process does not terminate.
\* ------------------------------------------------------------------------
C3_MissingRefsIsValidationError ==
    [][ ( /\ At("checksum")
          /\ Top.manifest_data[1].externalDocumentRefs = None )
        => ( /\ status' = "idle"
             /\ result'.kind = "MissingExternalDocRef" ) ]_vars

\* ------------------------------------------------------------------------
\* C4  Manifest resolution is decided by the number of existing candidates
\* over all search directories together: one gives that path, none fails
\* with ManifestNotFound, two or more fail with AmbiguousManifest.  (For an
\* element id whose part before the colon has a hyphen, so that the six
\* candidates are defined.)
\* ------------------------------------------------------------------------
C4_ResolutionByCount ==
    [][ ( /\ At("find")
          /\ Len(Split(BeforeColon(Top.elem_id), "-")) >= 2 )
        => LET pkg_ver == BeforeColon(Top.elem_id)
               n == Cardinality(Existing(pkg_ver))
           IN  CASE n = 0 -> /\ status' = "idle"
                             /\ result'.kind = "ManifestNotFound"
                 [] n = 1 -> /\ status' = "running"
                             /\ stack'[Len(stack')].stage = "checksum"
                             /\ \E dk \in Existing(pkg_ver) :
                                    stack'[Len(stack')].f =
                                        Candidates(spdx_dirs[dk[1]], pkg_ver)[dk[2]]
                 [] OTHER -> /\ status' = "idle"
                             /\ result'.kind = "AmbiguousManifest" ]_vars

\* Resolution failed on one candidate in each of two search directories
C4_Witness ==
    /\ Finished
    /\ result.kind = "AmbiguousManifest"
    /\ PathIn(Cwd, PkgVerA, SuffixJson) \in DOMAIN fs
    /\ PathIn(OtherDir, PkgVerA, SuffixJson) \in DOMAIN fs

\* ------------------------------------------------------------------------
\* C5  Back-reference law: when a relationship's element id is N:S, the
\* file for N exists, its checksum matches and the manifest in it has name
\* N and a package S, the relationship is validated and its element id
\* recorded, whatever N is (also a name without hyphen); when no package of
\* the inner manifest gives the element id, the call fails with
\* UnresolvedBackReference and the element id is not recorded.
\* ------------------------------------------------------------------------

\* The hypothesis of the law for the relationship a frame is working on
LawApplies(frame) ==
    LET e == frame.elem_id
        n == BeforeColon(e)
    IN  /\ Cardinality(Existing(n)) = 1
        /\ \E dk \in Existing(n) :
               LET p == Candidates(spdx_dirs[dk[1]], n)[dk[2]]
               IN  /\ Loadable(p)
                   /\ fs[p].doc.relationships = None
                   /\ fs[p].doc.name = n
                   /\ \E j \in 1..Len(fs[p].doc.packages) :
                          e = n \o << ":" >> \o fs[p].doc.packages[j].SPDXID
                   /\ Matching(frame.manifest_data[1], e) # {}
                   /\ \A i \in Matching(frame.manifest_data[1], e) :
                          Declares(frame.manifest_data[1], i, p)

C5_BackReferenceLaw ==
    [][ \A i \in 1..Len(stack) :
          ( /\ status = "running"
            /\ stack[i].stage \in { "find", "checksum", "recurse", "await",
                                    "backref" } )
          => /\ LawApplies(stack[i])
                  => /\ status' = "running"
                     /\ Len(stack') >= i
                     /\ stack[i].stage = "backref"
                            => checked_elements' =
                                   Append(checked_elements, stack[i].elem_id)
             /\ ( /\ stack[i].stage = "backref"
                  /\ \A j \in 1..Len(stack[i].inner_manifest[1].packages) :
                         stack[i].inner_manifest[1].name \o << ":" >>
                             \o stack[i].inner_manifest[1].packages[j].SPDXID
                             # stack[i].elem_id )
                  => /\ result'.kind = "UnresolvedBackReference"
                     /\ checked_elements' = checked_elements ]_vars

\* ------------------------------------------------------------------------
\* C6  For a schema-valid manifest without DYNAMIC_LINK relationships a
\* recursive call behaves as a non-recursive one: whatever the flag, the
\* call returns the manifest of the file, leaves checked_elements as it
\* found it, resolves no file, computes no checksum and loads nothing else.
\* ------------------------------------------------------------------------

NoDynamicLink(doc) ==
    \/ doc.relationships = None
    \/ \A k \in 1..Len(doc.relationships[1]) :
           doc.relationships[1][k].relationshipType # "DYNAMIC_LINK"

C6_RecursiveAsNonRecursive ==
    ( /\ result.kind # "none"
      /\ Loadable(call.spdx_file)
      /\ NoDynamicLink(fs[call.spdx_file].doc) )
    => /\ Len(stack) <= 1
       /\ spy.loads <= 1
       /\ spy.finds = 0
       /\ spy.hashes = 0
       /\ checked_elements = spy.entry
       /\ status # "exited"
       /\ Finished
              => result = [kind |-> "ok",
                           value |-> Some(fs[call.spdx_file].doc)]

\* A recursive call has returned for a manifest whose relationships are
\* all of another type, after looking at them
C6_Witness ==
    /\ Finished
    /\ call.recursive
    /\ result.kind = "ok"
    /\ result.value[1].relationships # None
    /\ result.value[1].relationships[1] # <<>>
    /\ NoDynamicLink(result.value[1])
    /\ spy.examined >= 1

\* ------------------------------------------------------------------------
\* C7  With recursive = False, validate_file only loads the file and checks
\* it against the schema, whatever relationships it declares: no
\* relationship is examined, no file resolved, no checksum computed, no
\* nested call made, and checked_elements is left as it was.
\* ------------------------------------------------------------------------
C7_NonRecursiveOnlyLoads ==
    ( /\ result.kind # "none"
      /\ ~call.recursive )
    => /\ Len(stack) <= 1
       /\ spy.loads <= 1
       /\ spy.examined = 0
       /\ spy.finds = 0
       /\ spy.hashes = 0
       /\ checked_elements = spy.entry
       /\ status # "exited"
       /\ ( Finished /\ Loadable(call.spdx_file) )
              => result = [kind |-> "ok",
                           value |-> Some(fs[call.spdx_file].doc)]

\* A non-recursive call has returned a manifest that declares a
\* DYNAMIC_LINK relationship
C7_Witness ==
    /\ Finished
    /\ ~call.recursive
    /\ result.kind = "ok"
    /\ ~NoDynamicLink(result.value[1])

\* ------------------------------------------------------------------------
\* C8  Idempotence within a session: a DYNAMIC_LINK relationship whose
\* element id is already in checked_elements is passed over with no
\* resolution, no checksum computation and no nested call; and a recursive
\* call that returns for a file an earlier recursive call of the session
\* returned for has computed no checksum and left checked_elements alone.
\* ------------------------------------------------------------------------
C8_Idempotence ==
    [][ /\ ( /\ At("loop")
             /\ Top.idx <= Len(Top.manifest_data[1].relationships[1])
             /\ Top.manifest_data[1].relationships[1][Top.idx]
                    .relationshipType = "DYNAMIC_LINK"
             /\ \E i \in 1..Len(checked_elements) :
                    checked_elements[i] =
                        StripDocRef(Top.manifest_data[1]
                                        .relationships[1][Top.idx].spdxElementId) )
           => /\ Len(stack') = Len(stack)
              /\ stack'[Len(stack')].stage = "loop"
              /\ stack'[Len(stack')].idx = Top.idx + 1
              /\ spy'.finds = spy.finds
              /\ spy'.hashes = spy.hashes
              /\ spy'.loads = spy.loads
              /\ checked_elements' = checked_elements
        /\ ( /\ At("return")
             /\ Len(stack) = 1
             /\ Top.recursive
             /\ spy.repeat )
           => /\ spy.hashes = 0
              /\ spy.finds = 0
              /\ spy.loads = 1
              /\ checked_elements = spy.entry
              /\ result'.kind = "ok" ]_vars

\* A second recursive call on a file with a DYNAMIC_LINK relationship has
\* returned, having passed over its relationships
C8_Witness ==
    /\ Finished
    /\ call.recursive
    /\ spy.repeat
    /\ result.kind = "ok"
    /\ ~NoDynamicLink(result.value[1])
    /\ spy.examined >= 1
    /\ spy.hashes = 0

\* ------------------------------------------------------------------------
\* C9  With and without debug, a validate_file call on a file that cannot
\* be opened or parsed fails with FileAccessError, and no step after the
\* read ever works on an absent manifest.
\* ------------------------------------------------------------------------

Unreadable(p) == TryLoad(p).raised \in { "OSError", "ParseError" }

C9_LoadFailureIsFileAccessError ==
    /\ \A i \in 1..Len(stack) :
           stack[i].stage # "read" => stack[i].manifest_data # None
    /\ ( Finished /\ Unreadable(call.spdx_file) )
           => result.kind = "FileAccessError"

\* ------------------------------------------------------------------------
\* C10  With and without debug, a validate_file call on a readable file
\* whose suffix is none of .yaml, .yml, .json (in any case) fails with
\* UnsupportedFormat.
\* ------------------------------------------------------------------------
C10_UnsupportedSuffix ==
    ( /\ Finished
      /\ call.spdx_file \in DOMAIN fs
      /\ Lower(Splitext(call.spdx_file)) \notin { ".yaml", ".yml", ".json" } )
    => result.kind = "UnsupportedFormat"

\* ------------------------------------------------------------------------
\* C11  Retained manifest: the manifest that data() returns is the one the
\* top-level call loaded, so when a top-level recursive call has succeeded,
\* data() equals the manifest that call returned.
\* ------------------------------------------------------------------------
C11_DataIsReturnedManifest ==
    ( /\ Finished
      /\ call.recursive
      /\ result.kind = "ok" )
    => manifest_data = result.value

\* The positions of the DYNAMIC_LINK relationships of a manifest
DynamicLinks(manifest) ==
    IF manifest.relationships = None THEN {}
    ELSE { k \in 1..Len(manifest.relationships[1]) :
             is_dynamic_link(manifest.relationships[1][k]) }

\* The current top-level call was recursive and has returned a manifest
Succeeded == Finished /\ call.recursive /\ result.kind = "ok"

\* ------------------------------------------------------------------------
\* C12  Checksums of the walk: when a top-level recursive call has
\* succeeded, then for every DYNAMIC_LINK relationship of every manifest the
\* walk read, every externalDocumentRefs entry of that manifest matching the
\* relationship declares the digest of the file the relationship resolves
\* to, also when the element id is referenced more than once.
\* ------------------------------------------------------------------------
C12_WalkChecksums ==
    Succeeded =>
        \A p \in spy.visited :
            Loadable(p) =>
                \A k \in DynamicLinks(fs[p].doc) :
                    LET e == elem_id_of(fs[p].doc.relationships[1][k])
                        r == _find_manifest_file(e)
                    IN  r.kind = "ok" =>
                            \A i \in Matching(fs[p].doc, e) :
                                Declares(fs[p].doc, i, r.f)

\* ------------------------------------------------------------------------
\* C12 (amended)  When a top-level recursive call has succeeded, then for
\* every DYNAMIC_LINK relationship the walk took up (its element id was not
\* in checked_elements when the walk came to it), the relationship resolves
\* to a file, some externalDocumentRefs entry of its manifest matches it and
\* every matching entry declares the digest of that file.
\* ------------------------------------------------------------------------
C12_ChecksumsTakenUp ==
    Succeeded =>
        \A pk \in spy.processed :
            LET manifest == fs[pk[1]].doc
                e == elem_id_of(manifest.relationships[1][pk[2]])
                r == _find_manifest_file(e)
            IN  /\ r.kind = "ok"
                /\ Matching(manifest, e) # {}
                /\ \A i \in Matching(manifest, e) : Declares(manifest, i, r.f)

\* a walk has succeeded in which two manifests link to the same element id
C12_Witness ==
    /\ Succeeded
    /\ \E p \in spy.visited, q \in spy.visited :
           /\ p # q
           /\ \E k \in DynamicLinks(fs[p].doc), l \in DynamicLinks(fs[q].doc) :
                  /\ elem_id_of(fs[p].doc.relationships[1][k])
                         = elem_id_of(fs[q].doc.relationships[1][l])
                  /\ << p, k >> \in spy.processed
                  /\ << q, l >> \notin spy.processed

\* What each stage of a relationship establishes, stated over the frame that
\* processes it

\* the related element is the SPDXID of a package of the frame's manifest
RelatedPresent(frame) ==
    \E i \in 1..Len(frame.manifest_data[1].packages) :
        frame.manifest_data[1].packages[i].SPDXID = frame.related_elem

\* exactly one candidate of the element id exists, and it is the frame's file
ResolvedOne(frame) ==
    LET pkg_ver == BeforeColon(frame.elem_id)
    IN  /\ Cardinality(Existing(pkg_ver)) = 1
        /\ \E dk \in Existing(pkg_ver) :
               Candidates(spdx_dirs[dk[1]], pkg_ver)[dk[2]] = frame.f

\* some externalDocumentRefs entry matches, and every matching one declares
\* the digest of the frame's file
ChecksumVerified(frame) ==
    /\ Matching(frame.manifest_data[1], frame.elem_id) # {}
    /\ \A i \in Matching(frame.manifest_data[1], frame.elem_id) :
           Declares(frame.manifest_data[1], i, frame.f)

\* the manifest the nested call returned names the element id
BackReferenced(frame) ==
    /\ frame.inner_manifest # None
    /\ \E i \in 1..Len(frame.inner_manifest[1].packages) :
           frame.inner_manifest[1].name \o << ":" >>
               \o frame.inner_manifest[1].packages[i].SPDXID = frame.elem_id

\* A nested frame exists only for the file its caller resolved and whose
\* checksum its caller verified, and a frame past a stage has passed it
InOrder ==
    /\ \A d \in 2..Len(stack) :
           /\ stack[d - 1].stage = "await"
           /\ stack[d - 1].f = stack[d].spdx_file
    /\ \A d \in 1..Len(stack) :
           /\ stack[d].stage \in { "find", "checksum", "recurse", "await",
                                   "backref" }
                  => RelatedPresent(stack[d])
           /\ stack[d].stage \in { "checksum", "recurse", "await", "backref" }
                  => ResolvedOne(stack[d])
           /\ stack[d].stage \in { "recurse", "await", "backref" }
                  => ChecksumVerified(stack[d])

\* One step of a frame: it is left alone, it passes over a relationship, or
\* it moves to the next stage, which the success of its stage allows
StageStep(a, b) ==
    \/ b = a
    \/ a.stage = "read"     /\ b.stage = "schema"
    \/ a.stage = "schema"   /\ b.stage \in { "loop", "return" }
    \/ a.stage = "loop"     /\ b = [a EXCEPT !.idx = @ + 1]
    \/ a.stage = "loop"     /\ b.stage \in { "related", "return" }
    \/ a.stage = "related"  /\ b = [a EXCEPT !.stage = "find"]
                            /\ RelatedPresent(a)
    \/ a.stage = "find"     /\ b = [a EXCEPT !.stage = "checksum", !.f = b.f]
                            /\ ResolvedOne(b)
    \/ a.stage = "checksum" /\ b = [a EXCEPT !.stage = "recurse"]
                            /\ ChecksumVerified(a)
    \/ a.stage = "recurse"  /\ b = [a EXCEPT !.stage = "await"]
    \/ a.stage = "await"    /\ b = [a EXCEPT !.stage = "backref",
                                             !.inner_manifest = b.inner_manifest]
                            /\ b.inner_manifest # None
    \/ a.stage = "backref"  /\ b.stage = "loop" /\ b.idx = a.idx + 1
                            /\ BackReferenced(a)

\* ------------------------------------------------------------------------
\* C13  Stage order: a DYNAMIC_LINK relationship that is processed passes
\* the related-element check, file resolution, checksum verification, the
\* nested validation, the back-reference check and the recording of its
\* element id in this order, no stage running unless the one before it
\* succeeded; a referenced file is read by a nested call only after its
\* checksum was verified, and an element id is recorded only by a frame
\* whose back-reference check succeeded.
\* ------------------------------------------------------------------------
C13_StageOrder ==
    [][ /\ InOrder
        /\ \A d \in 1..Len(stack) :
               d <= Len(stack') => StageStep(stack[d], stack'[d])
        /\ Len(stack') > Len(stack) /\ stack # <<>> =>
               /\ Top.stage = "recurse"
               /\ stack' = Append(SetTop([Top EXCEPT !.stage = "await"]),
                                  Frame(Top.f, Top.recursive))
        /\ checked_elements' # checked_elements =>
               /\ Top.stage = "backref"
               /\ BackReferenced(Top)
               /\ checked_elements' = Append(checked_elements, Top.elem_id)
      ]_vars

\* a nested call is running and an element id has been recorded
C13_Witness ==
    /\ status = "running"
    /\ Len(stack) >= 2
    /\ checked_elements # <<>>

\* The error the stage a frame stands at fails with, "" when it succeeds. At
\* the read stage the failure is the one met in reading: an unsupported
\* suffix, or a file that cannot be opened or parsed.
FailureOf(frame) ==
    CASE frame.stage = "read" ->
             LET raised == TryLoad(frame.spdx_file).raised
             IN  IF raised = "" THEN ""
                 ELSE IF raised = "UnsupportedFormat" THEN "UnsupportedFormat"
                 ELSE "FileAccessError"
      [] frame.stage = "schema" ->
             IF validate_json(frame.manifest_data) = "ok" THEN ""
             ELSE validate_json(frame.manifest_data)
      [] frame.stage = "related" ->
             IF RelatedPresent(frame) THEN "" ELSE "DanglingRelatedElement"
      [] frame.stage = "find" ->
             IF _find_manifest_file(frame.elem_id).kind = "ok" THEN ""
             ELSE _find_manifest_file(frame.elem_id).kind
      [] frame.stage = "checksum" ->
             LET r == check_checksum(frame.elem_id, frame.f,
                                     frame.manifest_data[1])
             IN  IF r.kind = "ok" THEN "" ELSE r.kind
      [] frame.stage = "backref" ->
             IF BackReferenced(frame) THEN "" ELSE "UnresolvedBackReference"
      [] OTHER -> ""

\* ------------------------------------------------------------------------
\* C14  First failure: in a recursive walk, the step at which a stage of any
\* frame fails ends the whole top-level call with that failure: every frame
\* is left, so no further relationship is processed, checked_elements is
\* left as it is, and the call's outcome is that error, not a manifest.
\* ------------------------------------------------------------------------
C14_FirstFailureAborts ==
    [][ ( /\ status = "running"
          /\ call.recursive
          /\ FailureOf(Top) # "" )
        => /\ stack' = <<>>
           /\ status' # "running"
           /\ result'.kind = FailureOf(Top)
           /\ checked_elements' = checked_elements
      ]_vars

\* The element id at position n of checked_elements has passed all stages:
\* exactly one candidate file exists for it; that file holds a valid
\* manifest naming the element id (back-reference) whose own DYNAMIC_LINK
\* element ids were all recorded before it (nested validation); and some
\* manifest links to it with the related element among its packages and
\* every matching externalDocumentRefs entry declaring the file's digest
PassedAllStages(n) ==
    LET e       == checked_elements[n]
        pkg_ver == BeforeColon(e)
    IN  /\ Cardinality(Existing(pkg_ver)) = 1
        /\ \A dk \in Existing(pkg_ver) :
             LET f == Candidates(spdx_dirs[dk[1]], pkg_ver)[dk[2]]
             IN  /\ Loadable(f)
                 /\ \E i \in 1..Len(fs[f].doc.packages) :
                        fs[f].doc.name \o << ":" >>
                            \o fs[f].doc.packages[i].SPDXID = e
                 /\ \A k \in DynamicLinks(fs[f].doc) :
                        \E j \in 1..(n - 1) :
                            checked_elements[j] =
                                elem_id_of(fs[f].doc.relationships[1][k])
                 /\ \E p \in DOMAIN fs :
                        /\ Loadable(p)
                        /\ \E k \in DynamicLinks(fs[p].doc) :
                             LET rel == fs[p].doc.relationships[1][k]
                             IN  /\ elem_id_of(rel) = e
                                 /\ \E i \in 1..Len(fs[p].doc.packages) :
                                        fs[p].doc.packages[i].SPDXID
                                            = rel.relatedSpdxElement
                                 /\ Matching(fs[p].doc, e) # {}
                                 /\ \A i \in Matching(fs[p].doc, e) :
                                        Declares(fs[p].doc, i, f)

\* ------------------------------------------------------------------------
\* C15  checked_elements: in every reachable state each recorded element id
\* has passed all stages, and no step, a failing one included, removes an
\* entry or resets the list: a step leaves it alone or appends to it.
\* ------------------------------------------------------------------------
C15_CheckedElements ==
    [][ /\ \A n \in 1..Len(checked_elements) : PassedAllStages(n)
        /\ Len(checked_elements') >= Len(checked_elements)
        /\ SubSeq(checked_elements', 1, Len(checked_elements))
               = checked_elements
      ]_vars

\* a call has failed on a validator that holds recorded element ids
C15_Witness ==
    /\ Finished
    /\ result.kind \notin { "ok", "none", "pending" }
    /\ Len(checked_elements) >= 2

\* The related element of relationship k of the manifest in file p is the
\* SPDXID of one of that manifest's packages
RelatedAmongPackages(p, k) ==
    \E i \in 1..Len(fs[p].doc.packages) :
        fs[p].doc.packages[i].SPDXID
            = fs[p].doc.relationships[1][k].relatedSpdxElement

\* ------------------------------------------------------------------------
\* C16  Related elements of the walk: when a top-level recursive call has
\* succeeded, every DYNAMIC_LINK relationship of every manifest the walk
\* read has its relatedSpdxElement among the SPDXIDs of the packages of that
\* manifest, also a relationship whose element id was already recorded.
\* ------------------------------------------------------------------------
C16_RelatedElementsOfWalk ==
    Succeeded =>
        \A p \in spy.visited :
            Loadable(p) =>
                \A k \in DynamicLinks(fs[p].doc) : RelatedAmongPackages(p, k)

\* ------------------------------------------------------------------------
\* C16 (amended)  When a top-level recursive call has succeeded, every
\* DYNAMIC_LINK relationship of every manifest the walk read either was
\* taken up and has its relatedSpdxElement among the SPDXIDs of the packages
\* of that manifest, or was passed over, its element id being recorded in
\* checked_elements.
\* ------------------------------------------------------------------------
C16_RelatedElementsTakenUp ==
    Succeeded =>
        \A p \in spy.visited :
            /\ Loadable(p)
            /\ \A k \in DynamicLinks(fs[p].doc) :
                   IF << p, k >> \in spy.processed
                   THEN RelatedAmongPackages(p, k)
                   ELSE already_checked(
                            elem_id_of(fs[p].doc.relationships[1][k]))

\* a walk over two manifests or more has succeeded, with a relationship
\* taken up and another one passed over
C16_Witness ==
    /\ Succeeded
    /\ Cardinality(spy.visited) >= 2
    /\ \E p \in spy.visited :
           \E k \in DynamicLinks(fs[p].doc), l \in DynamicLinks(fs[p].doc) :
               /\ << p, k >> \in spy.processed
               /\ << p, l >> \notin spy.processed

\* ------------------------------------------------------------------------
\* C17  Resolution is total: for every element id, one without a hyphen
\* before its first colon or without a colon included, the resolution step
\* either yields one existing file or ends the call with ManifestNotFound or
\* AmbiguousManifest, never with any other failure.
\* ------------------------------------------------------------------------
C17_ResolutionTotal ==
    [][ At("find") =>
            \/ /\ stack' # <<>>
               /\ stack'[Len(stack')].stage = "checksum"
               /\ stack'[Len(stack')].f \in DOMAIN fs
            \/ /\ stack' = <<>>
               /\ result'.kind \in { "ManifestNotFound", "AmbiguousManifest" }
      ]_vars

====
